---- MODULE Spec2Model ----
(***************************************************************************)
(* Stream descriptor and blob packaging core of lbrynet                    *)
(* (lbrynet/stream/descriptor.py).                                         *)
(*                                                                         *)
(* Two create_stream calls run on the same source file with the same key   *)
(* and the same IV sequence against one blob directory and one storage.    *)
(* The second call may overlap the first or start after it has ended, so   *)
(* the behaviours cover a single call, a retry and two concurrent calls.   *)
(* Blob writes complete in any order; a blob write, the SD-blob write and  *)
(* either storage operation may fail.                                      *)
(***************************************************************************)
EXTENDS Integers, Sequences, FiniteSets, TLC

\* ------------------------------------------------------------------ bounds
MaxChunks == 3          \* the source file has at most this many chunks
MaxLimit == 3           \* create_limit ranges over 1..MaxLimit
SdParts == 2            \* the SD-blob bytes reach the disk in this many pieces

\* --------------------------------------------------------------- constants
MAX_BLOB_SIZE == 2097152
AES_BLOCK_BYTES == 16

Calls == {1, 2}
FileName == "file"
\* the key is opaque to create_stream: one value stands for any
Keys == {"k0"}

\* lengths of the source file: empty, one byte, and the chunk boundaries
FileLens ==
    {0} \cup {(k - 1) * (MAX_BLOB_SIZE - 1) + r :
                 k \in 1..MaxChunks, r \in {1, MAX_BLOB_SIZE - 1}}

VARIABLES
    fileLen,      \* os.stat(file_path).st_size
    key,          \* the AES key both calls are given
    createLimit,  \* create_limit of each call
    pc,           \* position of each call
    offset,       \* file_reader: offset
    blobNum,      \* create_stream: blob_num
    ivDrawn,      \* number of next(iv_generator) calls made
    batch,        \* create_stream: batch (the list of write coroutines)
    running,      \* blob-write tasks started by gather and not yet finished
    blobs,        \* create_stream: blobs (list the callback appends to)
    descriptor,   \* the StreamDescriptor built by the call, <<>> before
    sdOff,        \* pieces of the SD blob this call's writer has written
    err,          \* the error create_stream raised, "" when none
    blobFiles,    \* blob files in blob_dir, named by blob hash
    sdFiles,      \* SD-blob files in blob_dir: path -> pieces on disk
    knownBlobs,   \* storage: rows added by add_known_blobs
    streams,      \* storage: rows added by store_stream
    storeLog,     \* storage operations each call invoked, in order
    retry,        \* the call started after call 1 had failed in the storage
    callPc,       \* the operation applied besides create_stream, and its state
    callArg,      \* the argument of that operation, <<>> when none
    callResult    \* what that operation returned or raised, <<>> before

vars == <<fileLen, key, createLimit, pc, offset, blobNum, ivDrawn, batch,
          running, blobs, descriptor, sdOff, err, blobFiles, sdFiles,
          knownBlobs, streams, storeLog, retry, callPc, callArg, callResult>>

\* --------------------------------------------------------- pure functions
Min(a, b) == IF a < b THEN a ELSE b

\* binascii.hexlify(x)
Hexlify(x) == [hex |-> x]

\* the n-th value the IV generator of a call yields (both calls are given
\* the same sequence)
NextIv(n) == n

\* AES-CBC with PKCS#7 padding: ciphertext length of an n-byte plaintext
PaddedLength(n) == ((n \div AES_BLOCK_BYTES) + 1) * AES_BLOCK_BYTES

\* hash of the ciphertext of the plaintext file[off .. off+n) under (k, iv)
BlobHash(k, iv, off, n) == [k |-> k, iv |-> iv, off |-> off, n |-> n]

\* BlobInfo(num, length, iv, blob_hash).as_dict()
BlobInfo(num, length, iv, hash) ==
    [blob_num |-> num, length |-> length, iv |-> iv, blob_hash |-> hash]

TerminatorWithHash(num, iv) ==
    [blob_num |-> num, length |-> 0, iv |-> iv, blob_hash |-> iv]

\* BlobInfo(num, 0, iv).as_dict(): no blob_hash key
TerminatorInfo(num, iv) == [blob_num |-> num, length |-> 0, iv |-> iv]

BytesToReadNoOffset(len, off) == Min(len, MAX_BLOB_SIZE - 1)

BytesToReadFullBlob(len, off) == Min(len - off, MAX_BLOB_SIZE)

\* file_reader: size of the chunk read at offset off
BytesToRead(len, off) == Min(len - off, MAX_BLOB_SIZE - 1)

\* list.sort(key=blob_num): stable insertion sort
RECURSIVE InsertByNum(_, _)
InsertByNum(b, s) ==
    IF s = <<>> THEN <<b>>
    ELSE IF b.blob_num < Head(s).blob_num THEN <<b>> \o s
    ELSE <<Head(s)>> \o InsertByNum(b, Tail(s))

RECURSIVE SortFrom(_, _)
SortFrom(s, i) ==
    IF i = 0 THEN <<>> ELSE InsertByNum(s[i], SortFrom(s, i - 1))

NoSortByBlobNum(s) == s

SortByBlobNum(s) == SortFrom(s, Len(s))

\* ---- the hash primitive (get_lbry_hash_obj): a hash object is the
\* sequence of bytes fed to it so far, update() appends to it

\* the bytes of an ASCII string such as a hex digest, str.encode()
Ascii(x) == <<[ascii |-> x]>>

\* str(n).encode(): the decimal digits of n, most significant first
RECURSIVE Dec(_)
Dec(n) ==
    IF n < 10 THEN <<[digit |-> n]>>
    ELSE Dec(n \div 10) \o <<[digit |-> n % 10]>>

\* h.digest(): the raw digest of what was fed
Digest(fed) == <<[digest |-> fed]>>

\* h.hexdigest()
HexDigest(fed) == [hexdigest |-> fed]

GetBlobHashsumLengthFirst(b) ==
    Digest((IF b.length # 0 THEN Ascii(b.blob_hash) ELSE <<>>)
           \o Dec(b.length) \o Ascii(b.iv) \o Dec(b.blob_num))

\* get_blob_hashsum: blob_hash (unless length is 0), str(blob_num), iv,
\* str(length) are fed in this order; the raw digest is returned
GetBlobHashsum(b) ==
    Digest((IF b.length # 0 THEN Ascii(b.blob_hash) ELSE <<>>)
           \o Dec(b.blob_num) \o Ascii(b.iv) \o Dec(b.length))

\* the loop of calculate_stream_hash: blobs_hashsum after the first i blobs
RECURSIVE BlobsHashsum(_, _)
BlobsHashsum(infos, i) ==
    IF i = 0 THEN <<>>
    ELSE BlobsHashsum(infos, i - 1) \o GetBlobHashsum(infos[i])

\* calculate_stream_hash
CalculateStreamHash(hexName, k, hexSuggested, infos) ==
    HexDigest(Ascii(hexName) \o Ascii(k) \o Ascii(hexSuggested)
              \o Digest(BlobsHashsum(infos, Len(infos))))

\* StreamDescriptor.get_stream_hash
GetStreamHash(name, k, suggested, infos) ==
    CalculateStreamHash(Hexlify(name), k, Hexlify(suggested), infos)

\* format_sd_info
FormatSdInfo(name, k, suggested, streamHash, infos) ==
    [stream_type |-> "lbryfile", stream_name |-> name, key |-> k,
     suggested_file_name |-> suggested, stream_hash |-> streamHash,
     blobs |-> infos]

\* StreamDescriptor.as_json: the object handed to json.dumps
AsJson(d) ==
    FormatSdInfo(Hexlify(d.stream_name), d.key, Hexlify(d.suggested_file_name),
                 d.stream_hash, d.blobs)

\* ---- json.dumps(obj, sort_keys=True): the output as a sequence of tokens

LBrace == [p |-> "{"]
RBrace == [p |-> "}"]
LBracket == [p |-> "["]
RBracket == [p |-> "]"]

\* the separators json.dumps uses when none are given
ItemSeparator == [p |-> ", "]
KeySeparator == [p |-> ": "]

\* a quoted string value, a quoted key, a number
JsonString(v) == <<[string |-> v]>>
\* a quoted string of plain text
JsonText(v) == JsonString([text |-> v])
JsonKey(k) == <<[name |-> k]>>
JsonNumber(n) == Dec(n)

\* the key names in str order
KeyOrder ==
    <<"blob_hash", "blob_num", "blobs", "iv", "key", "length", "stream_hash",
      "stream_name", "stream_type", "suggested_file_name">>

KeyRank(k) == CHOOSE i \in 1..Len(KeyOrder) : KeyOrder[i] = k

RECURSIVE InsertKey(_, _)
InsertKey(k, s) ==
    IF s = <<>> THEN <<k>>
    ELSE IF KeyRank(k) < KeyRank(Head(s)) THEN <<k>> \o s
    ELSE <<Head(s)>> \o InsertKey(k, Tail(s))

RECURSIVE SortKeysFrom(_, _)
SortKeysFrom(keys, i) ==
    IF i = 0 THEN <<>> ELSE InsertKey(keys[i], SortKeysFrom(keys, i - 1))

KeysAsInserted(keys) == keys

\* sort_keys=True: the items of a dict are written in the order of their keys
SortKeys(keys) == SortKeysFrom(keys, Len(keys))

\* the keys of the dict format_sd_info returns, in insertion order
SdInfoKeys ==
    <<"stream_type", "stream_name", "key", "suggested_file_name",
      "stream_hash", "blobs">>

\* the keys of BlobInfo.as_dict(), in insertion order
BlobDictKeys(b) ==
    IF "blob_hash" \in DOMAIN b
    THEN <<"length", "blob_num", "iv", "blob_hash">>
    ELSE <<"length", "blob_num", "iv">>

RECURSIVE JoinItems(_, _)
JoinItems(items, i) ==
    IF i = 0 THEN <<>>
    ELSE IF i = 1 THEN items[1]
    ELSE JoinItems(items, i - 1) \o <<ItemSeparator>> \o items[i]

DumpBlobValue(b, k) ==
    IF k \in {"blob_num", "length"} THEN JsonNumber(b[k]) ELSE JsonString(b[k])

DumpBlob(b) ==
    LET ks == SortKeys(BlobDictKeys(b))
        items == [i \in 1..Len(ks) |->
                     JsonKey(ks[i]) \o <<KeySeparator>>
                         \o DumpBlobValue(b, ks[i])]
    IN <<LBrace>> \o JoinItems(items, Len(ks)) \o <<RBrace>>

DumpBlobList(bs) ==
    LET items == [i \in 1..Len(bs) |-> DumpBlob(bs[i])]
    IN <<LBracket>> \o JoinItems(items, Len(bs)) \o <<RBracket>>

DumpSdValue(obj, k) ==
    IF k = "blobs" THEN DumpBlobList(obj.blobs)
    ELSE IF k = "stream_type" THEN JsonText(obj.stream_type)
    ELSE JsonString(obj[k])

JsonDumps(obj) ==
    LET ks == SortKeys(SdInfoKeys)
        items == [i \in 1..Len(ks) |->
                     JsonKey(ks[i]) \o <<KeySeparator>>
                         \o DumpSdValue(obj, ks[i])]
    IN <<LBrace>> \o JoinItems(items, Len(ks)) \o <<RBrace>>

\* ---- json.loads: the value a token sequence denotes

IsItemSeparator(tok) == "p" \in DOMAIN tok /\ tok.p \in {",", ", "}

\* the str a string token denotes
StringValue(v) == IF "text" \in DOMAIN v THEN v.text ELSE v

\* an int literal starting at token i, acc being the value of the digits
\* read so far
RECURSIVE ParseDigits(_, _, _)
ParseDigits(t, i, acc) ==
    IF i <= Len(t) /\ "digit" \in DOMAIN t[i]
    THEN ParseDigits(t, i + 1, acc * 10 + t[i].digit)
    ELSE [val |-> acc, next |-> i]

\* the value starting at token i, and the position after it
RECURSIVE ParseValue(_, _), ParseMembers(_, _, _), ParseElements(_, _, _)
ParseValue(t, i) ==
    IF "string" \in DOMAIN t[i]
    THEN [val |-> StringValue(t[i].string), next |-> i + 1]
    ELSE IF "digit" \in DOMAIN t[i] THEN ParseDigits(t, i, 0)
    ELSE IF t[i] = LBrace THEN ParseMembers(t, i + 1, <<>>)
    ELSE ParseElements(t, i + 1, <<>>)

ParseMembers(t, i, acc) ==
    IF t[i] = RBrace THEN [val |-> acc, next |-> i + 1]
    ELSE IF IsItemSeparator(t[i]) THEN ParseMembers(t, i + 1, acc)
    ELSE LET v == ParseValue(t, i + 2)
         IN ParseMembers(t, v.next, acc @@ (t[i].name :> v.val))

ParseElements(t, i, acc) ==
    IF t[i] = RBracket THEN [val |-> acc, next |-> i + 1]
    ELSE IF IsItemSeparator(t[i]) THEN ParseElements(t, i + 1, acc)
    ELSE LET v == ParseValue(t, i)
         IN ParseElements(t, v.next, Append(acc, v.val))

JsonLoads(t) == ParseValue(t, 1).val

\* StreamDescriptor.as_json: the bytes returned
AsJsonBytes(d) == JsonDumps(AsJson(d))

\* StreamDescriptor.calculate_sd_hash
CalculateSdHash(d) == [sha |-> AsJsonBytes(d)]

\* StreamDescriptor.__init__ with stream_hash and sd_hash left out
NewDescriptor(name, k, suggested, infos) ==
    [stream_name |-> name, key |-> k, suggested_file_name |-> suggested,
     blobs |-> infos, stream_hash |-> GetStreamHash(name, k, suggested, infos)]

\* ---- StreamDescriptor._from_stream_descriptor_blob

\* binascii.unhexlify(h), defined on hex strings only
CanUnhexlify(h) == "hex" \in DOMAIN h
Unhexlify(h) == h.hex

\* BlobInfo(info['blob_num'], info['length'], info['iv'],
\* info.get('blob_hash')), as the dict BlobInfo.as_dict() gives back
BlobInfoFromDict(info) ==
    IF "blob_hash" \in DOMAIN info
    THEN BlobInfo(info.blob_num, info.length, info.iv, info.blob_hash)
    ELSE [blob_num |-> info.blob_num, length |-> info.length, iv |-> info.iv]

\* get_blob_hashsum finds b['blob_hash'] wherever it looks for it
HashsumDefined(infos) ==
    \A i \in 1..Len(infos) :
        infos[i].length # 0 => "blob_hash" \in DOMAIN infos[i]

ReturnValue(d) == [status |-> "returned", descriptor |-> d]
Raised(e, msg) == [status |-> "raised", error |-> e, message |-> msg]
InvalidStreamDescriptorError(msg) == Raised("InvalidStreamDescriptorError", msg)

ValidateBlobsHashFirst(bl) ==
    IF "blob_hash" \in DOMAIN bl[Len(bl)]
    THEN "Stream terminator blob should not have a hash"
    ELSE IF bl[Len(bl)].length # 0
    THEN "Does not end with a zero-length blob."
    ELSE IF \E i \in 1..(Len(bl) - 1) : bl[i].length = 0
    THEN "Contains zero-length data blob"
    ELSE ""

\* the three checks made on decoded['blobs'] before the descriptor is
\* built: the message of the first one that fails, "" when none does
ValidateBlobs(bl) ==
    IF bl[Len(bl)].length # 0
    THEN "Does not end with a zero-length blob."
    ELSE IF \E i \in 1..(Len(bl) - 1) : bl[i].length = 0
    THEN "Contains zero-length data blob"
    ELSE IF "blob_hash" \in DOMAIN bl[Len(bl)]
    THEN "Stream terminator blob should not have a hash"
    ELSE ""

StreamHashUnchecked(d, decoded) == TRUE

\* descriptor.get_stream_hash() == decoded['stream_hash']
StreamHashMatches(d, decoded) ==
    GetStreamHash(d.stream_name, d.key, d.suggested_file_name, d.blobs)
        = decoded.stream_hash

\* cls(name, key, suggested_file_name, blobs, stream_hash): the stream hash
\* is the one given, sd_hash is left None
DescriptorFromDecoded(decoded) ==
    [stream_name |-> Unhexlify(decoded.stream_name),
     key |-> decoded.key,
     suggested_file_name |-> Unhexlify(decoded.suggested_file_name),
     blobs |-> [i \in 1..Len(decoded.blobs) |->
                   BlobInfoFromDict(decoded.blobs[i])],
     stream_hash |-> decoded.stream_hash]

\* _from_stream_descriptor_blob on the bytes of a file holding a JSON text
FromStreamDescriptorBlob(jsonBytes) ==
    LET decoded == JsonLoads(jsonBytes)
    IN IF decoded.blobs = <<>>
       THEN Raised("IndexError", "list index out of range")
       ELSE IF ValidateBlobs(decoded.blobs) # ""
       THEN InvalidStreamDescriptorError(ValidateBlobs(decoded.blobs))
       ELSE IF ~CanUnhexlify(decoded.stream_name)
               \/ ~CanUnhexlify(decoded.suggested_file_name)
       THEN Raised("binascii.Error", "Non-hexadecimal digit found")
       ELSE IF ~HashsumDefined(decoded.blobs)
       THEN Raised("KeyError", "blob_hash")
       ELSE IF ~StreamHashMatches(DescriptorFromDecoded(decoded), decoded)
       THEN InvalidStreamDescriptorError(
                "Stream hash does not match stream metadata")
       ELSE ReturnValue(DescriptorFromDecoded(decoded))

\* ------------------------------------------------------------ file system
Hole == [hole |-> TRUE]

Piece(json, i) == [json |-> json, part |-> i]

\* the pieces of a completely written SD blob
CompleteSd(json) == [i \in 1..SdParts |-> Piece(json, i)]

PathNeverExists(files, path) == FALSE

\* os.path.exists(path)
PathExists(files, path) == path \in DOMAIN files

OpenReadTruncates(files, path) == [files EXCEPT ![path] = <<>>]

\* open(path, 'rb') of a file that exists: the files stay as they are
OpenRead(files, path) == files

\* open(path, 'wb'): create the file, or truncate it
OpenTruncate(files, path) ==
    [p \in DOMAIN files \cup {path} |-> IF p = path THEN <<>> ELSE files[p]]

\* a writer in append mode: the piece lands at the end of the file
AppendPiece(content, off, json) == Append(content, Piece(json, off + 1))

\* the writer's next piece lands at the writer's own offset
WritePiece(content, off, json) ==
    [i \in 1..(IF Len(content) > off + 1 THEN Len(content) ELSE off + 1) |->
        IF i = off + 1 THEN Piece(json, i)
        ELSE IF i <= Len(content) THEN content[i]
        ELSE Hole]

SeqToSet(s) == {s[i] : i \in 1..Len(s)}

\* ------------------------------------------------------------------- Init
NoDescriptor == <<>>

\* no create_stream call has been made, blob_dir and the storage are empty
InitCalls ==
    /\ pc = [c \in Calls |-> "idle"]
    /\ offset = [c \in Calls |-> 0]
    /\ blobNum = [c \in Calls |-> 0]
    /\ ivDrawn = [c \in Calls |-> 0]
    /\ batch = [c \in Calls |-> <<>>]
    /\ running = [c \in Calls |-> {}]
    /\ blobs = [c \in Calls |-> <<>>]
    /\ descriptor = [c \in Calls |-> NoDescriptor]
    /\ sdOff = [c \in Calls |-> 0]
    /\ err = [c \in Calls |-> ""]
    /\ blobFiles = {}
    /\ sdFiles = <<>>
    /\ knownBlobs = {}
    /\ streams = {}
    /\ storeLog = [c \in Calls |-> <<>>]
    /\ retry = [c \in Calls |-> FALSE]

Init ==
    /\ fileLen \in FileLens
    /\ key \in Keys
    /\ createLimit \in [Calls -> 1..MaxLimit]
    /\ InitCalls
    /\ callPc = "idle"
    /\ callArg = <<>>
    /\ callResult = <<>>

\* ---------------------------------------------------------------- actions
inputVars == <<fileLen, key, createLimit>>
diskVars == <<blobFiles, sdFiles>>
storeVars == <<knownBlobs, streams, storeLog>>
callVars == <<callPc, callArg, callResult>>
createVars == <<fileLen, key, createLimit, pc, offset, blobNum, ivDrawn, batch,
                running, blobs, descriptor, sdOff, err, blobFiles, sdFiles,
                knownBlobs, streams, storeLog, retry>>

WriteTaskFirstIv(num, iv, off, n) ==
    [num |-> num, iv |-> NextIv(1), off |-> off, n |-> n]

\* the coroutine BlobFile.create_from_unencrypted(loop, blob_dir, key, iv,
\* blob_bytes, wrote_blob_callback, blob_num)
WriteTask(num, iv, off, n) == [num |-> num, iv |-> iv, off |-> off, n |-> n]

\* create_stream is called; call 2 is called once call 1 has been
StartCall(c) ==
    /\ pc[c] = "idle"
    /\ c = 2 => pc[1] # "idle"
    /\ pc' = [pc EXCEPT ![c] = "read"]
    /\ retry' = [retry EXCEPT
                   ![c] = c = 2 /\ pc[1] = "failed" /\ err[1] = "store_failed"]
    /\ UNCHANGED <<callVars,
                   inputVars, offset, blobNum, ivDrawn, batch, running, blobs,
                   descriptor, sdOff, err, diskVars, storeVars>>

\* asyncio.gather(*tasks): every coroutine handed over is started
GatherStarts(tasks) == SeqToSet(tasks)

BatchFullLate(b, limit) == Len(b) > limit

BatchNeverFull(b, limit) == FALSE

\* len(batch) >= create_limit
BatchFull(b, limit) == Len(b) >= limit

\* one round of "async for blob_bytes in file_reader(file_path)": the reader
\* yields a chunk, the write coroutine joins the batch, and a full batch is
\* handed to gather
ReadChunk(c) ==
    /\ pc[c] = "read"
    /\ offset[c] < fileLen
    /\ LET n == BytesToRead(fileLen, offset[c])
           task == WriteTask(blobNum[c], NextIv(ivDrawn[c] + 1), offset[c], n)
           newBatch == Append(batch[c], task)
       IN /\ n # 0
          /\ offset' = [offset EXCEPT ![c] = @ + n]
          /\ ivDrawn' = [ivDrawn EXCEPT ![c] = @ + 1]
          /\ blobNum' = [blobNum EXCEPT ![c] = @ + 1]
          /\ IF BatchFull(newBatch, createLimit[c])
             THEN /\ running' = [running EXCEPT
                                   ![c] = @ \cup GatherStarts(newBatch)]
                  /\ batch' = [batch EXCEPT ![c] = <<>>]
                  /\ pc' = [pc EXCEPT ![c] = "gather"]
             ELSE /\ batch' = [batch EXCEPT ![c] = newBatch]
                  /\ UNCHANGED <<callVars, running, pc>>
    /\ UNCHANGED <<callVars,
                   inputVars, blobs, descriptor, sdOff, err, diskVars,
                   storeVars, retry>>

\* the reader is exhausted: "if batch: await asyncio.gather(*tuple(batch))"
ReaderExhausted(c) ==
    /\ pc[c] = "read"
    /\ ~(offset[c] < fileLen)
    /\ IF batch[c] # <<>>
       THEN /\ running' = [running EXCEPT ![c] = @ \cup GatherStarts(batch[c])]
            /\ pc' = [pc EXCEPT ![c] = "gather_rest"]
       ELSE /\ pc' = [pc EXCEPT ![c] = "assemble"]
            /\ UNCHANGED running
    /\ UNCHANGED <<callVars, inputVars, offset, blobNum, ivDrawn, batch, blobs,
                   descriptor, sdOff, err, diskVars, storeVars, retry>>

CallbackNumbersByArrival(list, hash, iv, length, num) ==
    Append(list, BlobInfo(Len(list), length, Hexlify(iv), hash))

\* wrote_blob_callback(blob_hash, blob_iv, length, num)
WroteBlobCallback(list, hash, iv, length, num) ==
    Append(list, BlobInfo(num, length, Hexlify(iv), hash))

\* a started blob write finishes: the blob file is in blob_dir and the
\* callback has run
BlobWritten(c, t) ==
    /\ t \in running[c]
    /\ LET hash == BlobHash(key, t.iv, t.off, t.n)
       IN /\ blobFiles' = blobFiles \cup {hash}
          /\ blobs' = [blobs EXCEPT
                         ![c] = WroteBlobCallback(@, hash, t.iv,
                                                  PaddedLength(t.n), t.num)]
    /\ running' = [running EXCEPT ![c] = @ \ {t}]
    /\ UNCHANGED <<callVars,
                   inputVars, pc, offset, blobNum, ivDrawn, batch, descriptor,
                   sdOff, err, sdFiles, storeVars, retry>>

\* a started blob write raises: gather hands the first exception to the
\* awaiting create_stream and leaves the other tasks running
BlobWriteFails(c, t) ==
    /\ t \in running[c]
    /\ running' = [running EXCEPT ![c] = @ \ {t}]
    /\ IF pc[c] \in {"gather", "gather_rest"}
       THEN /\ pc' = [pc EXCEPT ![c] = "failed"]
            /\ err' = [err EXCEPT ![c] = "blob_write_failed"]
       ELSE UNCHANGED <<callVars, pc, err>>
    /\ UNCHANGED <<callVars, inputVars, offset, blobNum, ivDrawn, batch, blobs,
                   descriptor, sdOff, diskVars, storeVars, retry>>

FirstFinished(tasks) == TRUE

\* "await asyncio.gather(...)" resumes once every task has finished
AllFinished(tasks) == tasks = {}

\* every task of the gather has finished: create_stream resumes
GatherReturns(c) ==
    /\ pc[c] \in {"gather", "gather_rest"}
    /\ AllFinished(running[c])
    /\ pc' = [pc EXCEPT ![c] = IF pc[c] = "gather" THEN "read" ELSE "assemble"]
    /\ UNCHANGED <<callVars,
                   inputVars, offset, blobNum, ivDrawn, batch, running, blobs,
                   descriptor, sdOff, err, diskVars, storeVars, retry>>

\* blobs.sort(...); blobs.append(terminator); descriptor = cls(...)
Assemble(c) ==
    /\ pc[c] = "assemble"
    /\ LET sorted == SortByBlobNum(blobs[c])
           all == Append(sorted,
                         TerminatorInfo(Len(sorted),
                                        Hexlify(NextIv(ivDrawn[c] + 1))))
       IN /\ blobs' = [blobs EXCEPT ![c] = all]
          /\ descriptor' = [descriptor EXCEPT
                              ![c] = NewDescriptor(FileName, Hexlify(key),
                                                   FileName, all)]
    /\ ivDrawn' = [ivDrawn EXCEPT ![c] = @ + 1]
    /\ pc' = [pc EXCEPT ![c] = "sd_check"]
    /\ UNCHANGED <<callVars,
                   inputVars, offset, blobNum, batch, running, sdOff, err,
                   diskVars, storeVars, retry>>

WithSdHash(d, h) ==
    [stream_name |-> d.stream_name, key |-> d.key,
     suggested_file_name |-> d.suggested_file_name, blobs |-> d.blobs,
     stream_hash |-> d.stream_hash, sd_hash |-> h]

\* _write_sd_blob_file, up to the os.path.exists test
SdCheck(c) ==
    /\ pc[c] = "sd_check"
    /\ LET h == CalculateSdHash(descriptor[c])
       IN /\ descriptor' = [descriptor EXCEPT ![c] = WithSdHash(@, h)]
          /\ IF PathExists(sdFiles, h)
             THEN /\ pc' = [pc EXCEPT ![c] = "failed"]
                  /\ err' = [err EXCEPT ![c] = "sd_blob_exists"]
             ELSE /\ pc' = [pc EXCEPT ![c] = "sd_open"]
                  /\ UNCHANGED err
    /\ UNCHANGED <<callVars,
                   inputVars, offset, blobNum, ivDrawn, batch, running, blobs,
                   sdOff, diskVars, storeVars, retry>>

\* _write_sd_blob_file: open(path, 'wb')
SdOpen(c) ==
    /\ pc[c] = "sd_open"
    /\ sdFiles' = OpenTruncate(sdFiles, descriptor[c].sd_hash)
    /\ sdOff' = [sdOff EXCEPT ![c] = 0]
    /\ pc' = [pc EXCEPT ![c] = "sd_write"]
    /\ UNCHANGED <<callVars,
                   inputVars, offset, blobNum, ivDrawn, batch, running, blobs,
                   descriptor, err, blobFiles, storeVars, retry>>

\* _write_sd_blob_file: sd_file.write(self.as_json()), one piece reaching
\* the disk; after the last piece the file is closed and create_stream goes
\* on to save_to_database
SdWrite(c) ==
    /\ pc[c] = "sd_write"
    /\ LET path == descriptor[c].sd_hash
       IN sdFiles' = [sdFiles EXCEPT
                        ![path] = WritePiece(@, sdOff[c],
                                             AsJsonBytes(descriptor[c]))]
    /\ sdOff' = [sdOff EXCEPT ![c] = @ + 1]
    /\ pc' = [pc EXCEPT
                ![c] = IF sdOff[c] + 1 = SdParts THEN "add_known_blobs"
                       ELSE "sd_write"]
    /\ UNCHANGED <<callVars,
                   inputVars, offset, blobNum, ivDrawn, batch, running, blobs,
                   descriptor, err, blobFiles, storeVars, retry>>

\* _write_sd_blob_file: the write raises (disk full, I/O error)
SdWriteFails(c) ==
    /\ pc[c] = "sd_write"
    /\ pc' = [pc EXCEPT ![c] = "failed"]
    /\ err' = [err EXCEPT ![c] = "sd_write_failed"]
    /\ UNCHANGED <<callVars,
                   inputVars, offset, blobNum, ivDrawn, batch, running, blobs,
                   descriptor, sdOff, diskVars, storeVars, retry>>

\* storage.add_known_blobs(blob_dicts): one row per blob that has a hash
KnownBlobRows(infos) ==
    {[blob_hash |-> infos[i].blob_hash, length |-> infos[i].length,
      iv |-> infos[i].iv] :
        i \in {j \in 1..Len(infos) : "blob_hash" \in DOMAIN infos[j]}}

\* storage.store_stream(...): the stream row with its blob rows
StreamRow(d, sdHash) ==
    [stream_hash |-> d.stream_hash, sd_hash |-> sdHash,
     stream_name |-> Hexlify(d.stream_name), key |-> d.key,
     suggested_file_name |-> Hexlify(d.suggested_file_name),
     blobs |-> d.blobs]

\* save_to_database: await storage.add_known_blobs(blob_dicts)
AddKnownBlobs(c) ==
    /\ pc[c] = "add_known_blobs"
    /\ knownBlobs' = knownBlobs \cup KnownBlobRows(descriptor[c].blobs)
    /\ storeLog' = [storeLog EXCEPT ![c] = Append(@, "add_known_blobs")]
    /\ pc' = [pc EXCEPT ![c] = "store_stream"]
    /\ UNCHANGED <<callVars,
                   inputVars, offset, blobNum, ivDrawn, batch, running, blobs,
                   descriptor, sdOff, err, diskVars, streams, retry>>

\* save_to_database: await storage.store_stream(...)
StoreStream(c) ==
    /\ pc[c] = "store_stream"
    /\ streams' = streams \cup
                    {StreamRow(descriptor[c], descriptor[c].sd_hash)}
    /\ storeLog' = [storeLog EXCEPT ![c] = Append(@, "store_stream")]
    /\ pc' = [pc EXCEPT ![c] = "done"]
    /\ UNCHANGED <<callVars,
                   inputVars, offset, blobNum, ivDrawn, batch, running, blobs,
                   descriptor, sdOff, err, diskVars, knownBlobs, retry>>

\* either storage operation raises and commits nothing
StoreFails(c) ==
    /\ pc[c] \in {"add_known_blobs", "store_stream"}
    /\ storeLog' = [storeLog EXCEPT ![c] = Append(@, pc[c])]
    /\ pc' = [pc EXCEPT ![c] = "failed"]
    /\ err' = [err EXCEPT ![c] = "store_failed"]
    /\ UNCHANGED <<callVars,
                   inputVars, offset, blobNum, ivDrawn, batch, running, blobs,
                   descriptor, sdOff, diskVars, knownBlobs, streams, retry>>

Next ==
    \E c \in Calls :
        \/ StartCall(c)
        \/ ReadChunk(c)
        \/ ReaderExhausted(c)
        \/ \E t \in running[c] : BlobWritten(c, t)
        \/ \E t \in running[c] : BlobWriteFails(c, t)
        \/ GatherReturns(c)
        \/ Assemble(c)
        \/ SdCheck(c)
        \/ SdOpen(c)
        \/ SdWrite(c)
        \/ SdWriteFails(c)
        \/ AddKnownBlobs(c)
        \/ StoreStream(c)
        \/ StoreFails(c)

Spec == Init /\ [][Next]_vars

TypeOK ==
    /\ fileLen \in FileLens
    /\ \A c \in Calls :
        /\ pc[c] \in {"idle", "read", "gather", "gather_rest", "assemble",
                      "sd_check", "sd_open", "sd_write", "add_known_blobs",
                      "store_stream", "done", "failed"}
        /\ offset[c] \in 0..fileLen
        /\ blobNum[c] \in 0..MaxChunks
        /\ sdOff[c] \in 0..SdParts


\* ---------------------------------------------- as_json on its own
MaxJsonBlobs == 2       \* data blobs of the descriptors serialised, at most

JsonBlobLens == {16, 112, MAX_BLOB_SIZE}
JsonNames == {"file", "a.txt"}
JsonKeys == {"k0", "k1"}

\* a descriptor as create_stream builds it: data blobs of the given
\* ciphertext lengths numbered from 0, then the terminator
DescriptorOf(lens, name, k) ==
    NewDescriptor(name, Hexlify(k), name,
        [i \in 1..(Len(lens) + 1) |->
            IF i <= Len(lens)
            THEN BlobInfo(i - 1, lens[i], Hexlify(NextIv(i)),
                          BlobHash(k, NextIv(i), (i - 1) * (MAX_BLOB_SIZE - 1),
                                   lens[i] - 1))
            ELSE TerminatorInfo(Len(lens), Hexlify(NextIv(i)))])

JsonInputs ==
    {DescriptorOf(lens, name, k) :
        lens \in UNION {[1..n -> JsonBlobLens] : n \in 0..MaxJsonBlobs},
        name \in JsonNames, k \in JsonKeys}

InitJson ==
    /\ fileLen = 0
    /\ key = "k0"
    /\ createLimit = [c \in Calls |-> 1]
    /\ InitCalls
    /\ callPc = "as_json"
    /\ callArg \in JsonInputs
    /\ callResult = <<>>

\* descriptor.as_json() is called
AsJsonCall ==
    /\ callPc = "as_json"
    /\ callResult' = AsJsonBytes(callArg)
    /\ callPc' = "as_json_returned"
    /\ UNCHANGED <<callArg, createVars>>

NextJson == AsJsonCall

SpecJson == InitJson /\ [][NextJson]_vars


\* ------------------------------- from_stream_descriptor_blob on its own
MaxIngestBlobs == 2     \* the SD blobs ingested list at most this many blobs

IngestLens == {0, 16, 112}

\* an entry of decoded['blobs'], with or without its blob_hash
IngestEntry(num, length, withHash) ==
    IF withHash
    THEN BlobInfo(num, length, Hexlify(NextIv(num + 1)),
                  BlobHash("k0", NextIv(num + 1), num * (MAX_BLOB_SIZE - 1),
                           length - 1))
    ELSE [blob_num |-> num, length |-> length, iv |-> Hexlify(NextIv(num + 1))]

IngestBlobLists ==
    UNION {[1..n -> {IngestEntry(0, l, h) : l \in IngestLens, h \in BOOLEAN}]
              : n \in 0..MaxIngestBlobs}

Renumber(bl) == [i \in 1..Len(bl) |-> [bl[i] EXCEPT !.blob_num = i - 1]]

\* the stream hashes an SD blob may carry: the one of its own fields (when
\* it can be derived) and one of another stream
IngestStreamHashes(name, bl) ==
    {HexDigest(<<>>)} \cup
    (IF CanUnhexlify(name) /\ HashsumDefined(bl)
     THEN {CalculateStreamHash(name, Hexlify("k0"), name, bl)} ELSE {})

\* the decoded objects: any list of entries, a name that is hex or is not,
\* an embedded stream hash that fits or does not
IngestObjects ==
    UNION {{FormatSdInfo(name, Hexlify("k0"), name, h, Renumber(bl)) :
               h \in IngestStreamHashes(name, Renumber(bl))} :
           name \in {Hexlify(FileName), [nothex |-> FileName]},
           bl \in IngestBlobLists}

InitIngest ==
    /\ fileLen = 0
    /\ key = "k0"
    /\ createLimit = [c \in Calls |-> 1]
    /\ InitCalls
    /\ callPc = "ingest"
    /\ callArg \in {JsonDumps(o) : o \in IngestObjects}
    /\ callResult = <<>>

\* from_stream_descriptor_blob(loop, blob) on a blob file holding callArg
IngestCall ==
    /\ callPc = "ingest"
    /\ callResult' = FromStreamDescriptorBlob(callArg)
    /\ callPc' = "ingest_done"
    /\ UNCHANGED <<callArg, createVars>>

NextIngest == IngestCall

SpecIngest == InitIngest /\ [][NextIngest]_vars


\* --------------------- create_stream with from_stream_descriptor_blob
\* f.read() returned a whole JSON text: every piece of the SD blob is on disk
WholeFile(content) ==
    /\ Len(content) = SdParts
    /\ \A i \in 1..Len(content) : "json" \in DOMAIN content[i]

\* a stream hash that is not the one of any stream created here
ForeignStreamHash == HexDigest(<<>>)

\* the SD blob of another publisher: the same JSON text but for stream_hash
WithStreamHash(jsonBytes, h) ==
    JsonDumps([JsonLoads(jsonBytes) EXCEPT !.stream_hash = h])

InitRoundTrip ==
    /\ fileLen \in FileLens
    /\ key = "k0"
    /\ createLimit = [c \in Calls |-> 1]
    /\ InitCalls
    /\ callPc = "idle"
    /\ callArg = <<>>
    /\ callResult = <<>>

\* from_stream_descriptor_blob(loop, blob) where blob is an SD blob file of
\* blob_dir as it is on disk at this moment
IngestSdFile ==
    /\ callPc = "idle"
    /\ \E path \in DOMAIN sdFiles :
          /\ sdFiles' = OpenRead(sdFiles, path)
          /\ IF WholeFile(sdFiles[path])
             THEN /\ callArg' = sdFiles[path][1].json
                  /\ callResult' =
                        FromStreamDescriptorBlob(sdFiles[path][1].json)
             ELSE /\ callArg' = sdFiles[path]
                  /\ callResult' = Raised("JSONDecodeError", "")
    /\ callPc' = "ingest_done"
    /\ UNCHANGED <<inputVars, pc, offset, blobNum, ivDrawn, batch, running,
                   blobs, descriptor, sdOff, err, blobFiles, storeVars, retry>>

\* from_stream_descriptor_blob(loop, blob) where blob came from a peer and
\* carries the stream hash of another stream
IngestForeignSdBlob ==
    /\ callPc = "idle"
    /\ \E path \in DOMAIN sdFiles :
          /\ WholeFile(sdFiles[path])
          /\ LET jsonBytes ==
                     WithStreamHash(sdFiles[path][1].json, ForeignStreamHash)
             IN /\ callArg' = jsonBytes
                /\ callResult' = FromStreamDescriptorBlob(jsonBytes)
    /\ callPc' = "ingest_done"
    /\ UNCHANGED createVars

\* the ways the blobs list of a peer's SD blob can break a rule
Malformations == {"no_terminator", "zero_length", "terminator_hash"}

\* the JSON text with its blobs list broken in the given way
Malformed(jsonBytes, kind) ==
    LET o == JsonLoads(jsonBytes)
        bl == o.blobs
        n == Len(bl)
        list == IF kind = "no_terminator"
                THEN [bl EXCEPT ![n].length = AES_BLOCK_BYTES]
                ELSE IF kind = "zero_length" THEN <<bl[n]>> \o bl
                ELSE [bl EXCEPT
                        ![n] = BlobInfo(bl[n].blob_num, 0, bl[n].iv,
                                        BlobHash(key, NextIv(n), 0, 0))]
    IN JsonDumps([o EXCEPT !.blobs = list])

\* from_stream_descriptor_blob(loop, blob) where blob came from a peer and
\* its blobs list breaks one of the rules
IngestMalformedSdBlob ==
    /\ callPc = "idle"
    /\ \E path \in DOMAIN sdFiles, kind \in Malformations :
          /\ WholeFile(sdFiles[path])
          /\ LET jsonBytes == Malformed(sdFiles[path][1].json, kind)
             IN /\ callArg' = jsonBytes
                /\ callResult' = FromStreamDescriptorBlob(jsonBytes)
    /\ callPc' = "ingest_done"
    /\ UNCHANGED createVars

NextRoundTrip ==
    \/ Next
    \/ IngestSdFile
    \/ IngestForeignSdBlob
    \/ IngestMalformedSdBlob

SpecRoundTrip == InitRoundTrip /\ [][NextRoundTrip]_vars


\* ------------------------------------------------------- Session.setup
\* callArg holds the Session's constructor arguments and what the network
\* answers; callResult holds the Session's fields and the calls made so far
MaxDevices == 1     \* UPnP devices that discover() finds, at most
MaxNodes == 2       \* entries of known_dht_nodes, at most

\* the methods class Session defines; __init__ sets no attribute that is
\* named like a method
SessionAttributes ==
    {"__init__", "setup", "shut_down", "_try_upnp", "_unset_upnp"}

SetupInputs ==
    [use_upnp : BOOLEAN, wallet_given : BOOLEAN,
     discover_raises : BOOLEAN, devices : 0..MaxDevices,
     peer_port_set : BOOLEAN, dht_node_port_set : BOOLEAN,
     tcp_mapped : BOOLEAN, udp_mapped : BOOLEAN,
     known_dht_nodes : 0..MaxNodes]

InitSetup ==
    /\ fileLen = 0
    /\ key = "k0"
    /\ createLimit = [c \in Calls |-> 1]
    /\ InitCalls
    /\ callPc = "setup"
    /\ callArg \in SetupInputs
    /\ callResult = [wallet |-> IF callArg.wallet_given THEN "wallet"
                                ELSE "None",
                     upnp |-> "not tried", upnp_redirects |-> <<>>,
                     port_mappings_added |-> <<>>, hosts |-> 0,
                     started |-> <<>>, error |-> ""]

\* a service of the session is started
Started(name) == [callResult EXCEPT !.started = Append(@, name)]

\* setup up to its first yield: the wallet defaults to a PTCWallet, and
\* with use_upnp the UPnP thread is started
SetupBegins ==
    /\ callPc = "setup"
    /\ callResult' = [callResult EXCEPT
                        !.wallet = IF @ = "None" THEN "PTCWallet" ELSE @]
    /\ callPc' = IF callArg.use_upnp THEN "threaded_try_upnp" ELSE "resolve"
    /\ UNCHANGED <<callArg, createVars>>

\* the redirects threaded_try_upnp sets up once a device is selected
Redirects(arg) ==
    (IF arg.peer_port_set THEN <<[port |-> "peer_port", proto |-> "TCP"]>>
     ELSE <<>>)
    \o (IF arg.dht_node_port_set
        THEN <<[port |-> "dht_node_port", proto |-> "UDP"]>> ELSE <<>>)

\* the addportmapping calls it makes: none for a port already mapped
MappingsAdded(arg) ==
    (IF arg.peer_port_set /\ ~arg.tcp_mapped
     THEN <<[port |-> "peer_port", proto |-> "TCP"]>> ELSE <<>>)
    \o (IF arg.dht_node_port_set /\ ~arg.udp_mapped
        THEN <<[port |-> "dht_node_port", proto |-> "UDP"]>> ELSE <<>>)

\* threaded_try_upnp runs in its thread: it returns True with the redirects
\* set, or raises (miniupnpc raising, or "UPnP failed" with no device)
ThreadedTryUpnp ==
    /\ callPc = "threaded_try_upnp"
    /\ IF ~callArg.discover_raises /\ callArg.devices > 0
       THEN /\ callResult' = [callResult EXCEPT
                                !.upnp = "True",
                                !.upnp_redirects = Redirects(callArg),
                                !.port_mappings_added = MappingsAdded(callArg)]
            /\ callPc' = "resolve"
       ELSE /\ callResult' = [callResult EXCEPT !.upnp = "raised"]
            /\ callPc' = "upnp_failed"
    /\ UNCHANGED <<callArg, createVars>>

\* the errback upnp_failed: self._get_external_ip() is looked up and called,
\* then False is returned; a failed lookup fails the Deferred setup waits on
UpnpFailed ==
    /\ callPc = "upnp_failed"
    /\ IF "_get_external_ip" \in SessionAttributes
       THEN /\ callResult' = [callResult EXCEPT !.upnp = "False"]
            /\ callPc' = "resolve"
       ELSE /\ callResult' = [callResult EXCEPT !.error = "AttributeError"]
            /\ callPc' = "setup_failed"
    /\ UNCHANGED <<callArg, createVars>>

\* "for host, port in self.known_dht_nodes: h = yield reactor.resolve(host)"
ResolveHost ==
    /\ callPc = "resolve"
    /\ callResult.hosts < callArg.known_dht_nodes
    /\ callResult' = [callResult EXCEPT !.hosts = @ + 1]
    /\ UNCHANGED <<callPc, callArg, createVars>>

\* yield self.dht_node.joinNetwork(tuple(hosts))
JoinNetwork ==
    /\ callPc = "resolve"
    /\ callResult.hosts = callArg.known_dht_nodes
    /\ callResult' = Started("dht_node")
    /\ callPc' = "peer_finder"
    /\ UNCHANGED <<callArg, createVars>>

\* the calls after joinNetwork, in the order setup makes them
SetupOrder ==
    <<"peer_finder", "blob_manager", "hash_announcer", "rate_limiter",
      "wallet", "blob_tracker", "setup_done">>

\* self.peer_finder.run_manage_loop() ... yield self.blob_tracker.start():
\* the next of these calls is made and completes
StartService ==
    /\ \E i \in 1..(Len(SetupOrder) - 1) :
          /\ callPc = SetupOrder[i]
          /\ callResult' = Started(SetupOrder[i])
          /\ callPc' = SetupOrder[i + 1]
    /\ UNCHANGED <<callArg, createVars>>

NextSetup ==
    \/ SetupBegins
    \/ ThreadedTryUpnp
    \/ UpnpFailed
    \/ ResolveHost
    \/ JoinNetwork
    \/ StartService

SpecSetup == InitSetup /\ [][NextSetup]_vars

\* ------------------------------------------------------------- properties
Returned(c) == pc[c] = "done"

HasSdHash(c) == "sd_hash" \in DOMAIN descriptor[c]

\* errors raised by the environment of create_stream
EnvFaults == {"blob_write_failed", "sd_write_failed", "store_failed"}

\* C1: in every descriptor create_stream returns, whatever the order the
\* blob writes completed in, blobs[i].blob_num = i for every index i
\* (indices counted from 0), data blobs and terminator alike.
C1_BlobNumDense ==
    \A c \in Calls :
        Returned(c) =>
            \A i \in 1..Len(descriptor[c].blobs) :
                descriptor[c].blobs[i].blob_num = i - 1

\* a call that started several writes at once has returned a descriptor
\* with three data blobs and the terminator
C1_Witness ==
    \E c \in Calls :
        /\ Returned(c)
        /\ createLimit[c] >= 2
        /\ Len(descriptor[c].blobs) = 4

\* C2: a returned descriptor has exactly one entry of length 0, it is the
\* last one, it has no blob_hash, and it was never a write target: every
\* write task carries a non-empty chunk and the terminator's number is the
\* number of write tasks created.
C2_Terminator ==
    \A c \in Calls :
        /\ \A t \in running[c] \cup SeqToSet(batch[c]) :
              t.n > 0 /\ t.num < blobNum[c]
        /\ Returned(c) =>
              LET b == descriptor[c].blobs
              IN /\ Len(b) >= 1
                 /\ {i \in 1..Len(b) : b[i].length = 0} = {Len(b)}
                 /\ "blob_hash" \notin DOMAIN b[Len(b)]
                 /\ b[Len(b)].blob_num = blobNum[c]
                 /\ Len(b) = blobNum[c] + 1

\* a call has returned two data blobs followed by the terminator
C2_Witness ==
    \E c \in Calls :
        /\ Returned(c)
        /\ Len(descriptor[c].blobs) = 3
        /\ descriptor[c].blobs[3].length = 0

\* C3: at every moment the number of blob-write tasks started and not yet
\* finished is at most create_limit.
C3_InFlightBounded ==
    \A c \in Calls : Cardinality(running[c]) <= createLimit[c]

\* a full batch of two or more writes is in flight
C3_Witness ==
    \E c \in Calls :
        /\ createLimit[c] >= 2
        /\ Cardinality(running[c]) = createLimit[c]

\* the descriptor's data blobs all have their blob file in blob_dir
AllBlobsOnDisk(c) ==
    \A i \in 1..Len(descriptor[c].blobs) :
        "blob_hash" \in DOMAIN descriptor[c].blobs[i] =>
            descriptor[c].blobs[i].blob_hash \in blobFiles

\* C4: a storage operation is invoked only when every chunk has been read,
\* every blob write has completed and this call's SD-blob write is complete;
\* store_stream is invoked only after add_known_blobs has completed.
C4_SdBeforeStore ==
    [][\A c \in Calls :
          storeLog'[c] # storeLog[c] =>
              /\ offset[c] = fileLen
              /\ running[c] = {}
              /\ Len(descriptor[c].blobs) = blobNum[c] + 1
              /\ AllBlobsOnDisk(c)
              /\ HasSdHash(c)
              /\ sdOff[c] = SdParts
              /\ storeLog'[c][Len(storeLog'[c])] = "store_stream" =>
                    /\ storeLog[c] = <<"add_known_blobs">>
                    /\ KnownBlobRows(descriptor[c].blobs) \subseteq knownBlobs
              /\ storeLog'[c][Len(storeLog'[c])] = "add_known_blobs" =>
                    storeLog[c] = <<>>]_vars

\* a call with data blobs has invoked both storage operations
C4_Witness ==
    \E c \in Calls :
        /\ storeLog[c] = <<"add_known_blobs", "store_stream">>
        /\ blobNum[c] >= 2

\* C5: when the SD-blob file is already there at the os.path.exists test,
\* create_stream fails with the "sd blob exists" error, leaves the files of
\* blob_dir as they are and performs no storage operation.
C5_SdBlobExists ==
    [][\A c \in Calls :
          /\ (/\ pc[c] = "sd_check"
              /\ pc'[c] # "sd_check"
              /\ CalculateSdHash(descriptor[c]) \in DOMAIN sdFiles)
             => /\ pc'[c] = "failed"
                /\ err'[c] = "sd_blob_exists"
                /\ sdFiles' = sdFiles
                /\ blobFiles' = blobFiles
                /\ <<knownBlobs', streams'>> = <<knownBlobs, streams>>
          /\ err[c] = "sd_blob_exists"
             => /\ pc'[c] = "failed"
                /\ storeLog'[c] = <<>>
                /\ sdOff'[c] = 0]_vars

\* a call has failed because the SD blob was there
C5_Witness ==
    \E c \in Calls : pc[c] = "failed" /\ err[c] = "sd_blob_exists"

Terminal(c) == pc[c] \in {"done", "failed"}

\* C6: after call 1 has failed in the storage with its SD blob written, a
\* retry with the same inputs recovers: unless the environment fails it
\* again, the retry returns and the stream is in the storage.
C6_RetryRecovers ==
    \A c \in Calls :
        (retry[c] /\ Terminal(c) /\ err[c] \notin EnvFaults) =>
            /\ pc[c] = "done"
            /\ StreamRow(descriptor[c], descriptor[c].sd_hash) \in streams

\* C7: two runs on the same file with the same key and IV sequence compute
\* the same blob list, stream_hash and sd_hash, whatever the order their
\* blob writes completed in and whatever their create_limit.
C7_Deterministic ==
    \A c1, c2 \in Calls :
        (HasSdHash(c1) /\ HasSdHash(c2)) =>
            /\ descriptor[c1].blobs = descriptor[c2].blobs
            /\ descriptor[c1].stream_hash = descriptor[c2].stream_hash
            /\ descriptor[c1].sd_hash = descriptor[c2].sd_hash
            /\ \A i \in 1..Len(descriptor[c1].blobs) :
                  "blob_hash" \in DOMAIN descriptor[c1].blobs[i] =>
                      descriptor[c1].blobs[i].blob_hash \in blobFiles

\* two runs with different create_limit have both computed the sd_hash of
\* a stream of three data blobs
C7_Witness ==
    /\ HasSdHash(1) /\ HasSdHash(2)
    /\ createLimit[1] # createLimit[2]
    /\ Len(descriptor[1].blobs) = 4

\* C8: once two create_stream calls on the same file have both ended
\* without an environment failure, they have computed the same SD-blob
\* bytes, both returned or exactly one failed with "sd blob exists", and the
\* file at <blob_dir>/<sd_hash> holds the complete canonical JSON.
C8_ConcurrentCalls ==
    (\A c \in Calls : Terminal(c) /\ err[c] \notin EnvFaults) =>
        /\ AsJsonBytes(descriptor[1]) = AsJsonBytes(descriptor[2])
        /\ descriptor[1].sd_hash = descriptor[2].sd_hash
        /\ \/ pc[1] = "done" /\ pc[2] = "done"
           \/ \E c, d \in Calls :
                 /\ c # d
                 /\ pc[c] = "done"
                 /\ pc[d] = "failed" /\ err[d] = "sd_blob_exists"
        /\ DOMAIN sdFiles = {descriptor[1].sd_hash}
        /\ sdFiles[descriptor[1].sd_hash] =
              CompleteSd(AsJsonBytes(descriptor[1]))

\* both calls passed the os.path.exists test before either had created the
\* file, both wrote it and both returned
C8_Witness ==
    /\ pc[1] = "done" /\ pc[2] = "done"
    /\ sdOff[1] = SdParts /\ sdOff[2] = SdParts
    /\ sdFiles[descriptor[1].sd_hash] = CompleteSd(AsJsonBytes(descriptor[1]))

\* C9: the file at <blob_dir>/<sd_hash> either does not exist or holds the
\* complete canonical JSON, in every state.
C9_NoPartialSd ==
    \A path \in DOMAIN sdFiles : sdFiles[path] = CompleteSd(path.sha)

\* C10: once a blob write has failed, no sibling write task of the call is
\* left running, no further chunk is read, no blob file appears or
\* disappears through this call, no SD blob is written and no storage
\* operation is performed.
C10_BlobWriteFailure ==
    \A c \in Calls :
        err[c] = "blob_write_failed" =>
            /\ running[c] = {}
            /\ pc[c] = "failed"
            /\ DOMAIN descriptor[c] = {}
            /\ storeLog[c] = <<>>

\* every row save_to_database writes for the descriptor of call c
AllRowsCommitted(c) ==
    /\ KnownBlobRows(descriptor[c].blobs) \subseteq knownBlobs
    /\ StreamRow(descriptor[c], descriptor[c].sd_hash) \in streams

NoRowCommitted(c) ==
    /\ KnownBlobRows(descriptor[c].blobs) \cap knownBlobs = {}
    /\ StreamRow(descriptor[c], descriptor[c].sd_hash) \notin streams

\* C11: persisting the descriptor is one atomic transaction: after a
\* failure during persistence either all of the stream's rows (known-blob
\* rows, stream row with its blob rows) are committed or none is.
C11_AtomicPersistence ==
    \A c \in Calls :
        err[c] = "store_failed" => AllRowsCommitted(c) \/ NoRowCommitted(c)

\* C15: once create_stream has returned, sd_hash is set and is the hash of
\* the canonical JSON, the file <blob_dir>/<sd_hash> holds exactly these
\* bytes, and store_stream was given the same sd_hash.
C15_SdHashAndFile ==
    \A c \in Calls :
        Returned(c) =>
            /\ HasSdHash(c)
            /\ descriptor[c].sd_hash = CalculateSdHash(descriptor[c])
            /\ descriptor[c].sd_hash \in DOMAIN sdFiles
            /\ sdFiles[descriptor[c].sd_hash] =
                  CompleteSd(AsJsonBytes(descriptor[c]))
            /\ \E row \in streams :
                  /\ row.stream_hash = descriptor[c].stream_hash
                  /\ row.sd_hash = descriptor[c].sd_hash

Ceil(a, b) == (a + b - 1) \div b

\* C17: for a file of length L the reader yields ceil(L / (MAX_BLOB_SIZE-1))
\* chunks, none empty, all but the last of MAX_BLOB_SIZE - 1 bytes, each
\* starting where the one before ended and the last ending at L; so the
\* empty file gives the terminator alone, L = MAX_BLOB_SIZE - 1 one data
\* blob and L = MAX_BLOB_SIZE two (a full one, then one byte).
C17_Chunker ==
    [][\A c \in Calls :
          /\ offset'[c] # offset[c] =>
                LET n == offset'[c] - offset[c]
                IN /\ n >= 1
                   /\ n <= MAX_BLOB_SIZE - 1
                   /\ offset'[c] <= fileLen
                   /\ n < MAX_BLOB_SIZE - 1 => offset'[c] = fileLen
                   /\ blobNum'[c] = blobNum[c] + 1
                   /\ \E t \in running'[c] \cup SeqToSet(batch'[c]) :
                         t.num = blobNum[c] /\ t.off = offset[c] /\ t.n = n
          /\ (pc[c] = "read" /\ pc'[c] \in {"gather_rest", "assemble"}) =>
                /\ offset[c] = fileLen
                /\ blobNum[c] = Ceil(fileLen, MAX_BLOB_SIZE - 1)
          /\ (pc'[c] = "done" /\ pc[c] # "done") =>
                LET b == descriptor[c].blobs
                IN /\ Len(b) = Ceil(fileLen, MAX_BLOB_SIZE - 1) + 1
                   /\ fileLen = 0 => Len(b) = 1
                   /\ fileLen = MAX_BLOB_SIZE - 1 =>
                         Len(b) = 2 /\ b[1].blob_hash.n = MAX_BLOB_SIZE - 1
                   /\ fileLen = MAX_BLOB_SIZE =>
                         /\ Len(b) = 3
                         /\ b[1].blob_hash.n = MAX_BLOB_SIZE - 1
                         /\ b[2].blob_hash.n = 1
                         /\ b[2].length = AES_BLOCK_BYTES]_vars

\* a call on a file of MAX_BLOB_SIZE bytes has returned
C17_Witness ==
    \E c \in Calls :
        /\ Returned(c)
        /\ fileLen = MAX_BLOB_SIZE
        /\ Len(descriptor[c].blobs) = 3

\* C18: every data blob the callback recorded has a length that is the
\* padded length of a chunk of 1..MAX_BLOB_SIZE-1 bytes, hence positive, at
\* most MAX_BLOB_SIZE and a multiple of 16; a returned descriptor has such
\* a length at every index but the last.
C18_BlobLength ==
    \A c \in Calls :
        /\ \A i \in 1..Len(blobs[c]) :
              "blob_hash" \in DOMAIN blobs[c][i] =>
                  /\ blobs[c][i].blob_hash.n \in 1..(MAX_BLOB_SIZE - 1)
                  /\ blobs[c][i].length = PaddedLength(blobs[c][i].blob_hash.n)
        /\ Returned(c) =>
              \A i \in 1..(Len(descriptor[c].blobs) - 1) :
                  /\ 0 < descriptor[c].blobs[i].length
                  /\ descriptor[c].blobs[i].length <= MAX_BLOB_SIZE
                  /\ descriptor[c].blobs[i].length % 16 = 0

\* a returned descriptor with a blob of MAX_BLOB_SIZE bytes and one of 16
C18_Witness ==
    \E c \in Calls :
        /\ Returned(c)
        /\ Len(descriptor[c].blobs) >= 3
        /\ descriptor[c].blobs[1].length = MAX_BLOB_SIZE
        /\ \E i \in 2..(Len(descriptor[c].blobs) - 1) :
              descriptor[c].blobs[i].length = 16

\* the stream hash construction of the format description: per blob, in
\* list order, an inner hash over the hex blob hash (only when the length is
\* not 0), the decimal blob number, the hex iv and the decimal length, whose
\* raw digest goes into the blobs hash; the outer hash over the hex stream
\* name, the hex key, the hex suggested file name and the raw digest of the
\* blobs hash
RefInner(b) ==
    LET h0 == <<>>
        h1 == IF b.length # 0 THEN h0 \o <<[ascii |-> b.blob_hash]>> ELSE h0
        h2 == h1 \o Dec(b.blob_num)
        h3 == h2 \o <<[ascii |-> b.iv]>>
        h4 == h3 \o Dec(b.length)
    IN [digest |-> h4]

RefStreamHash(name, keyHex, suggested, infos) ==
    LET inner == [i \in 1..Len(infos) |-> RefInner(infos[i])]
        outer == <<[ascii |-> [hex |-> name]], [ascii |-> keyHex],
                   [ascii |-> [hex |-> suggested]], [digest |-> inner]>>
    IN [hexdigest |-> outer]

\* C19: the stream hash of every descriptor create_stream builds is the one
\* the reference construction gives for its name, key, suggested file name
\* and blob list.
C19_StreamHashConstruction ==
    \A c \in Calls :
        DOMAIN descriptor[c] # {} =>
            descriptor[c].stream_hash =
                RefStreamHash(descriptor[c].stream_name, descriptor[c].key,
                              descriptor[c].suggested_file_name,
                              descriptor[c].blobs)

\* a descriptor with data blobs of 16 and of 2097152 bytes and a terminator
\* numbered 3 has its stream hash
C19_Witness ==
    \E c \in Calls :
        /\ DOMAIN descriptor[c] # {}
        /\ Len(descriptor[c].blobs) = 4
        /\ descriptor[c].blobs[1].length = MAX_BLOB_SIZE
        /\ descriptor[c].blobs[3].length = 16

\* ---- reading the token sequence of a serialised descriptor
IsPunct(tok, c) == "p" \in DOMAIN tok /\ tok.p = c
IsBrace(tok) == IsPunct(tok, "{") \/ IsPunct(tok, "}")
IsKey(tok) == "name" \in DOMAIN tok

KeyPositions(t) == {i \in 1..Len(t) : IsKey(t[i])}

PrevBrace(t, i) ==
    CHOOSE k \in 1..i :
        IsBrace(t[k]) /\ \A m \in (k + 1)..i : ~IsBrace(t[m])

\* the object a key belongs to: 0 for the outer object, else the position
\* of the opening brace of its blob entry
ObjectOf(t, i) ==
    LET k == PrevBrace(t, i)
    IN IF k = 1 \/ IsPunct(t[k], "}") THEN 0 ELSE k

KeysOf(t, obj) ==
    {t[i].name : i \in {j \in KeyPositions(t) : ObjectOf(t, j) = obj}}

KeysSorted(t) ==
    \A i, j \in KeyPositions(t) :
        (i < j /\ ObjectOf(t, i) = ObjectOf(t, j)) =>
            KeyRank(t[i].name) < KeyRank(t[j].name)

Puncts(t) == {t[i].p : i \in {j \in 1..Len(t) : "p" \in DOMAIN t[j]}}

\* the value written for a key of the outer object
OuterValue(t, k) ==
    LET i == CHOOSE j \in KeyPositions(t) :
                 ObjectOf(t, j) = 0 /\ t[j].name = k
    IN t[i + 2]

LastObject(t) ==
    CHOOSE k \in 1..Len(t) :
        IsPunct(t[k], "{") /\ \A m \in (k + 1)..Len(t) : ~IsPunct(t[m], "{")

\* what C20 says of the serialisation t of descriptor d, but for whitespace
JsonShape(t, d) ==
    /\ t[1] = LBrace /\ t[Len(t)] = RBrace
    /\ KeysOf(t, 0) = SeqToSet(SdInfoKeys)
    /\ KeysSorted(t)
    /\ Cardinality({i \in 1..Len(t) : IsPunct(t[i], "{")}) = Len(d.blobs) + 1
    /\ OuterValue(t, "stream_name") = [string |-> Hexlify(d.stream_name)]
    /\ OuterValue(t, "suggested_file_name") =
          [string |-> Hexlify(d.suggested_file_name)]
    /\ KeysOf(t, LastObject(t)) = {"blob_num", "iv", "length"}
    /\ \A i \in KeyPositions(t) :
          (ObjectOf(t, i) \notin {0, LastObject(t)}) =>
              KeysOf(t, ObjectOf(t, i)) =
                  {"blob_hash", "blob_num", "iv", "length"}

\* C20 as stated: sorted keys at every level, hex names, no blob_hash on
\* the terminator, and no insignificant whitespace.
C20_NoWhitespace ==
    callPc = "as_json_returned" =>
        /\ JsonShape(callResult, callArg)
        /\ Puncts(callResult) \subseteq {"{", "}", "[", "]", ",", ":"}

\* C20: as_json writes a JSON object with sorted keys at every level, with
\* stream_name and suggested_file_name as hex and no blob_hash on the
\* terminator entry; the only whitespace is the one space json.dumps puts
\* after every "," and every ":".
C20_CanonicalJson ==
    callPc = "as_json_returned" =>
        /\ JsonShape(callResult, callArg)
        /\ Puncts(callResult) = {"{", "}", "[", "]", ", ", ": "}

\* a descriptor with two data blobs and the terminator has been serialised
C20_Witness ==
    /\ callPc = "as_json_returned"
    /\ Len(callArg.blobs) = 3
    /\ Len(callResult) > 0


\* ---- the outcome of an ingest
RejectedWith(r, msg) ==
    /\ r.status = "raised"
    /\ r.error = "InvalidStreamDescriptorError"
    /\ r.message = msg

\* some entry before the last one has length 0
ZeroLengthDataBlob(bl) == \E i \in 1..(Len(bl) - 1) : bl[i].length = 0

\* the stream hash can be re-derived from the decoded fields
Derivable(o) ==
    /\ CanUnhexlify(o.stream_name)
    /\ CanUnhexlify(o.suggested_file_name)
    /\ \A i \in 1..Len(o.blobs) :
          o.blobs[i].length # 0 => "blob_hash" \in DOMAIN o.blobs[i]

Rederived(o) ==
    CalculateStreamHash(o.stream_name, o.key, o.suggested_file_name, o.blobs)

\* C12 as stated: for every decodable SD blob, from_stream_descriptor_blob
\* either returns a descriptor or raises InvalidStreamDescriptorError, and
\* nothing else, an empty blobs list and a data blob without blob_hash
\* included.
C12_TwoOutcomes ==
    callPc = "ingest_done" =>
        \/ callResult.status = "returned"
        \/ /\ callResult.status = "raised"
           /\ callResult.error = "InvalidStreamDescriptorError"

\* C13: ingest reports the first violated check, in the order: the last blob
\* has a length other than 0; an earlier blob has length 0; the last blob
\* carries a blob_hash; the re-derived stream hash is not the embedded one.
C13_ValidationOrder ==
    callPc = "ingest_done" =>
        LET o == JsonLoads(callArg)
            bl == o.blobs
            n == Len(bl)
        IN n > 0 =>
            /\ bl[n].length # 0 =>
                  RejectedWith(callResult,
                               "Does not end with a zero-length blob.")
            /\ (bl[n].length = 0 /\ ZeroLengthDataBlob(bl)) =>
                  RejectedWith(callResult, "Contains zero-length data blob")
            /\ (/\ bl[n].length = 0
                /\ ~ZeroLengthDataBlob(bl)
                /\ "blob_hash" \in DOMAIN bl[n]) =>
                  RejectedWith(callResult,
                      "Stream terminator blob should not have a hash")
            /\ (/\ bl[n].length = 0
                /\ ~ZeroLengthDataBlob(bl)
                /\ "blob_hash" \notin DOMAIN bl[n]
                /\ Derivable(o)
                /\ Rederived(o) # o.stream_hash) =>
                  RejectedWith(callResult,
                      "Stream hash does not match stream metadata")

\* an SD blob failing the first three checks at once was rejected for the
\* first of them
C13_Witness ==
    /\ callPc = "ingest_done"
    /\ LET bl == JsonLoads(callArg).blobs
       IN /\ Len(bl) = 2
          /\ bl[2].length # 0
          /\ bl[1].length = 0
          /\ "blob_hash" \in DOMAIN bl[2]
    /\ RejectedWith(callResult, "Does not end with a zero-length blob.")

\* the ingest got a JSON text to work on
Decoded == callPc = "ingest_done" /\ callResult.error # "JSONDecodeError"

\* C14: every descriptor handed out, by create_stream or by ingest, has the
\* stream hash that its own fields re-derive; ingest returns a descriptor
\* only if the embedded stream hash is the re-derived one and rejects the
\* SD blob if it is not.
C14_StreamHashConsistent ==
    /\ \A c \in Calls :
          Returned(c) =>
              RefStreamHash(descriptor[c].stream_name, descriptor[c].key,
                            descriptor[c].suggested_file_name,
                            descriptor[c].blobs) = descriptor[c].stream_hash
    /\ (callPc = "ingest_done" /\ callResult.status = "returned") =>
          LET d == callResult.descriptor
          IN /\ RefStreamHash(d.stream_name, d.key, d.suggested_file_name,
                              d.blobs) = d.stream_hash
             /\ Rederived(JsonLoads(callArg)) = JsonLoads(callArg).stream_hash
    /\ (/\ callPc = "ingest_done"
        /\ ~(callResult.status = "raised"
               /\ callResult.error = "JSONDecodeError")
        /\ Derivable(JsonLoads(callArg))
        /\ Rederived(JsonLoads(callArg)) # JsonLoads(callArg).stream_hash) =>
          /\ callResult.status = "raised"
          /\ callResult.error = "InvalidStreamDescriptorError"
          /\ ValidateBlobs(JsonLoads(callArg).blobs) = "" =>
                callResult.message =
                    "Stream hash does not match stream metadata"

\* create_stream has returned a descriptor and an ingest of an SD blob with
\* another stream hash was rejected
C14_Witness ==
    /\ Returned(1)
    /\ callPc = "ingest_done"
    /\ callArg = WithStreamHash(AsJsonBytes(descriptor[1]), ForeignStreamHash)
    /\ RejectedWith(callResult, "Stream hash does not match stream metadata")

\* C16 as stated: ingesting the canonical JSON of a descriptor create_stream
\* returned yields a descriptor equal to it field by field, sd_hash
\* included.
C16_RoundTrip ==
    \A c \in Calls :
        (/\ Returned(c)
         /\ callPc = "ingest_done"
         /\ callArg = AsJsonBytes(descriptor[c])) =>
            /\ callResult.status = "returned"
            /\ callResult.descriptor = descriptor[c]

\* ---- the IVs and the batches of create_stream
\* the chunks of a file of the given length
Chunks(len) == Ceil(len, MAX_BLOB_SIZE - 1)

\* the n-th IV the generator yields, as the descriptor records it
DrawnIv(n) == [hex |-> n]

\* the blob infos the callback has appended so far (the terminator, once
\* appended, is not one of them)
Written(c) ==
    IF DOMAIN descriptor[c] = {} THEN Len(blobs[c]) ELSE Len(blobs[c]) - 1

\* C21: create_stream draws N+1 IVs for a file of N chunks: the chunk with
\* blob_num i gets the draw made for it in read order (the first draw for
\* blob_num 0), whatever order the writes complete in, and the terminator
\* gets the last draw, made only when no blob write is still running.
C21_IvOrder ==
    \A c \in Calls :
        /\ ivDrawn[c] <= Chunks(fileLen) + 1
        /\ \A t \in running[c] \cup SeqToSet(batch[c]) : t.iv = t.num + 1
        /\ \A i \in 1..Len(blobs[c]) :
              blobs[c][i].iv = DrawnIv(blobs[c][i].blob_num + 1)
        /\ DOMAIN descriptor[c] = {} => ivDrawn[c] = blobNum[c]
        /\ DOMAIN descriptor[c] # {} =>
              /\ ivDrawn[c] = Chunks(fileLen) + 1
              /\ running[c] = {}
              /\ Len(descriptor[c].blobs) = Chunks(fileLen) + 1
              /\ descriptor[c].blobs[Chunks(fileLen) + 1].iv =
                    DrawnIv(Chunks(fileLen) + 1)
              /\ \A i \in 1..Chunks(fileLen) :
                    descriptor[c].blobs[i].iv = DrawnIv(i)

\* two writes of a three-chunk file have completed out of read order, and
\* each recorded the IV drawn for its blob_num
C21_Witness ==
    \E c \in Calls :
        /\ Chunks(fileLen) = 3
        /\ DOMAIN descriptor[c] = {}
        /\ Len(blobs[c]) >= 2
        /\ blobs[c][1].blob_num > blobs[c][2].blob_num
        /\ blobs[c][1].iv = DrawnIv(blobs[c][1].blob_num + 1)

\* C22: once the batch has reached create_limit no chunk is read and no
\* task of a later batch is started before every task of that batch has
\* finished; so no more than create_limit chunks are ever read and not yet
\* written.
C22_BatchBarrier ==
    [][\A c \in Calls :
          /\ offset'[c] # offset[c] =>
                /\ running[c] = {}
                /\ Len(batch[c]) < createLimit[c]
          /\ (running'[c] \ running[c]) # {} =>
                /\ running[c] = {}
                /\ Cardinality(running'[c]) <= createLimit[c]
          /\ blobNum'[c] - Written(c)' <= createLimit[c]]_vars

\* a batch of create_limit = 2 chunks is in flight while a third chunk of
\* the file is still unread
C22_Witness ==
    \E c \in Calls :
        /\ createLimit[c] = 2
        /\ Cardinality(running[c]) = 2
        /\ pc[c] = "gather"
        /\ offset[c] < fileLen

\* ---- Session.setup
\* UPnP was tried and failed: no device was found or the thread raised
UpnpFailure ==
    callArg.use_upnp /\ (callArg.discover_raises \/ callArg.devices = 0)

\* C24 as stated: with use_upnp, when discovery finds no device or the UPnP
\* thread raises, the failure handler ends with False without raising, and
\* setup joins the DHT and starts the peer finder, the blob manager, the
\* hash announcer, the rate limiter, the wallet and the blob tracker in
\* that order.
C24_UpnpTolerated ==
    UpnpFailure =>
        /\ callPc # "setup_failed"
        /\ callResult.error = ""
        /\ callResult.upnp \in {"not tried", "raised", "False"}
        /\ callPc \in {"resolve"} \cup SeqToSet(SetupOrder) =>
              callResult.upnp = "False"
        /\ callPc = "setup_done" =>
              callResult.started =
                  <<"dht_node", "peer_finder", "blob_manager",
                    "hash_announcer", "rate_limiter", "wallet",
                    "blob_tracker">>

\* ---- the frame of an ingest
\* C23: from_stream_descriptor_blob, whether it returns a descriptor or
\* fails, leaves the rows of the store and the files of the blob directory
\* as they were.
C23_IngestFrame ==
    [][(callPc = "idle" /\ callPc' = "ingest_done") =>
          /\ knownBlobs' = knownBlobs
          /\ streams' = streams
          /\ storeLog' = storeLog
          /\ blobFiles' = blobFiles
          /\ sdFiles' = sdFiles]_vars

\* with a stream stored and its files on disk, an ingest was rejected for a
\* zero-length data blob
C23_Witness ==
    /\ callPc = "ingest_done"
    /\ streams # {}
    /\ knownBlobs # {}
    /\ blobFiles # {}
    /\ RejectedWith(callResult, "Contains zero-length data blob")

====
